---- MODULE Spec2Model ----
(***************************************************************************)
(* Document text reconciliation engine of app/services/ocr.py.             *)
(*                                                                         *)
(* Text is a sequence of one-character strings.  Positions are integers    *)
(* (the code's floats, restricted to whole values).  A page is a record    *)
(* of what the external capabilities return for it:                        *)
(*   lines   - the text layer, one [y, x, text] per dict line (span texts  *)
(*             already concatenated, not yet trimmed)                      *)
(*   widgets - the form-field widgets [name, label, value, y, x];          *)
(*             value = None when the widget holds no value                 *)
(*   ocr     - the blob pytesseract returns for the rasterized page        *)
(*   mrz     - what read_mrz does on the page image                        *)
(*   rect    - [x0, width, height]                                         *)
(***************************************************************************)
EXTENDS Integers, Sequences, FiniteSets, Bags, TLC

\* ----------------------------------------------------------------- bounds
MaxPages == 2
MaxMrzPages == 3
MaxThreshold == 4
MaxLines == 2
MaxWidgets == 1

\* ------------------------------------------------------------------- text
NL == "\n"
SP == " "
\* Python's None, where a text may stand: a one-element sequence no text equals
None == <<"None">>

IsSpace(c) == c \in {NL, SP}

RECURSIVE LStrip(_)
LStrip(s) ==
  IF s = << >> THEN << >>
  ELSE IF IsSpace(Head(s)) THEN LStrip(Tail(s)) ELSE s

RECURSIVE RStrip(_)
RStrip(s) ==
  IF s = << >> THEN << >>
  ELSE IF IsSpace(s[Len(s)]) THEN RStrip(SubSeq(s, 1, Len(s) - 1)) ELSE s

\* str.strip()
Strip(s) == RStrip(LStrip(s))

\* sep.join(parts)
RECURSIVE Join(_, _)
Join(parts, sep) ==
  IF parts = << >> THEN << >>
  ELSE IF Len(parts) = 1 THEN parts[1]
  ELSE parts[1] \o sep \o Join(Tail(parts), sep)

\* str.splitlines(): the pieces between newlines; a final newline opens no
\* further piece
RECURSIVE SplitFrom(_, _)
SplitFrom(s, cur) ==
  IF s = << >> THEN (IF cur = << >> THEN << >> ELSE <<cur>>)
  ELSE IF Head(s) = NL THEN <<cur>> \o SplitFrom(Tail(s), << >>)
  ELSE SplitFrom(Tail(s), Append(cur, Head(s)))

splitlines(s) == SplitFrom(s, << >>)

\* ------------------------------------------------- positioned-line sources
Line(y, x, text) == [y |-> y, x |-> x, text |-> text]

\* _extract_page_text_lines: trim each text-layer line, drop the empty ones
RECURSIVE TextLinesOf(_)
TextLinesOf(raw) ==
  IF raw = << >> THEN << >>
  ELSE LET line_text == Strip(Head(raw).text)
       IN  (IF line_text = << >> THEN << >>
            ELSE <<Line(Head(raw).y, Head(raw).x, line_text)>>)
           \o TextLinesOf(Tail(raw))

_extract_page_text_lines(page) == TextLinesOf(page.lines)

\* [line.strip() for line in text.splitlines() if line.strip()]
RECURSIVE StripNonEmpty(_)
StripNonEmpty(ls) ==
  IF ls = << >> THEN << >>
  ELSE (IF Strip(Head(ls)) = << >> THEN << >> ELSE <<Strip(Head(ls))>>)
       \o StripNonEmpty(Tail(ls))

\* _extract_page_ocr_lines: OCR lines spread evenly over the page height,
\* at horizontal position 0.  The page heights of the model are multiples
\* of every line_count + 1 that occurs, so the division is exact.
_extract_page_ocr_lines(page) ==
  LET raw_lines == StripNonEmpty(splitlines(page.ocr))
      page_height == IF page.rect.height = 0 THEN 1 ELSE page.rect.height
      step == page_height \div (Len(raw_lines) + 1)
  IN  [index \in 1..Len(raw_lines) |-> Line(step * index, 0, raw_lines[index])]

\* _normalize_field_value, for None and str values
_normalize_field_value(value) ==
  IF value = None THEN << >>
  ELSE LET text == Strip(value)
       IN  IF text # << >> /\ Head(text) = "/" THEN Tail(text) ELSE text

FieldWord == <<"f", "i", "e", "l", "d">>

\* the text of one widget's line: "<display>: <value>"
WidgetDisplay(widget) ==
  LET name == widget.name
      label == widget.label
  IN  IF label # << >> /\ name # << >> /\ label # name
        THEN name \o <<SP, "(">> \o label \o <<")">>
      ELSE IF name # << >> THEN name
      ELSE IF label # << >> THEN label
      ELSE FieldWord

RECURSIVE FieldLinesOf(_)
FieldLinesOf(widgets) ==
  IF widgets = << >> THEN << >>
  ELSE LET widget == Head(widgets)
           value_text == _normalize_field_value(widget.value)
       IN  (IF value_text = << >> THEN << >>
            ELSE <<Line(widget.y, widget.x,
                        WidgetDisplay(widget) \o <<":", SP>> \o value_text)>>)
           \o FieldLinesOf(Tail(widgets))

\* _extract_page_field_lines: (lines, total, filled)
_extract_page_field_lines(page) ==
  LET lines == FieldLinesOf(page.widgets)
  IN  [lines |-> lines, total |-> Len(page.widgets), filled |-> Len(lines)]

\* -------------------------------------------------------- line arrangement
\* the key without its second component
KeyLessVerticalOnly(a, b) == a.y < b.y

\* key=lambda item: (item[0], item[1]), compared as Python compares tuples
KeyLess(a, b) == a.y < b.y \/ (a.y = b.y /\ a.x < b.x)

\* sorted() is stable: an item goes after every item whose key is not greater
RECURSIVE InsertSorted(_, _)
InsertSorted(sorted, item) ==
  IF sorted = << >> THEN <<item>>
  ELSE IF KeyLess(item, Head(sorted)) THEN <<item>> \o sorted
  ELSE <<Head(sorted)>> \o InsertSorted(Tail(sorted), item)

RECURSIVE SortedByKey(_)
SortedByKey(lines) ==
  IF lines = << >> THEN << >>
  ELSE InsertSorted(SortedByKey(SubSeq(lines, 1, Len(lines) - 1)), lines[Len(lines)])

\* the partition with the midpoint itself sent to the right column
InLeftColumnStrict(item, page) == 2 * item.x < 2 * page.rect.x0 + page.rect.width

\* item[1] <= mid, with mid = x0 + width / 2 (compared doubled, to stay whole)
InLeftColumn(item, page) == 2 * item.x <= 2 * page.rect.x0 + page.rect.width

_arrange_lines(lines, page, column_mode) ==
  IF column_mode # "two-column" THEN SortedByKey(lines)
  ELSE LET left == SelectSeq(lines, LAMBDA item : InLeftColumn(item, page))
           right == SelectSeq(lines, LAMBDA item : ~InLeftColumn(item, page))
       IN  SortedByKey(left) \o SortedByKey(right)

\* text_lines of _merge_page_text_with_fields: one reader or the other
PageLines(page, use_ocr) ==
  IF ~use_ocr THEN _extract_page_text_lines(page)
  ELSE _extract_page_ocr_lines(page)

TextsOf(ordered) == [i \in 1..Len(ordered) |-> ordered[i].text]

\* the texts with repeated lines dropped
RECURSIVE DistinctTexts(_)
DistinctTexts(texts) ==
  IF texts = << >> THEN << >>
  ELSE LET rest == DistinctTexts(SubSeq(texts, 1, Len(texts) - 1))
           last == texts[Len(texts)]
       IN  IF \E i \in 1..Len(rest) : rest[i] = last THEN rest ELSE Append(rest, last)

NonEmptyTextsDeduplicated(ordered) ==
  DistinctTexts(SelectSeq(TextsOf(ordered), LAMBDA t : t # << >>))

NonEmptyTexts(ordered) == SelectSeq(TextsOf(ordered), LAMBDA t : t # << >>)

_merge_page_text_with_fields(page, use_ocr, column_mode) ==
  LET combined == PageLines(page, use_ocr) \o _extract_page_field_lines(page).lines
      ordered == _arrange_lines(combined, page, column_mode)
  IN  Join(NonEmptyTexts(ordered), <<NL>>)

\* _extract_text_with_fields as a function of the document: the page texts,
\* in page order, joined by newlines
_extract_text_with_fields(doc, ocr_pass, mode) ==
  Join([i \in 1..Len(doc) |-> _merge_page_text_with_fields(doc[i], ocr_pass, mode)],
       <<NL>>)

\* ------------------------------------------------------------ MRZ reader
\* What MRZ detection does on an image: preparing the image raises (the
\* page's get_pixmap/tobytes, or opening the image file), read_mrz raises,
\* read_mrz returns None, or it returns an object with aux["raw_text"],
\* aux["text"], a string form and to_dict().
Mrz(kind, raw_text, text, str, to_dict, items) ==
  [kind |-> kind, raw_text |-> raw_text, text |-> text, str |-> str,
   to_dict |-> to_dict, items |-> items]

MrzNone == Mrz("none", None, None, << >>, "absent", << >>)
MrzRaises == Mrz("raise", None, None, << >>, "absent", << >>)
RasterRaises == Mrz("raster_raise", None, None, << >>, "absent", << >>)

\* a or b, for values that are None or text
Or(a, b) == IF a # None /\ a # << >> THEN a ELSE b

_mrz_to_string(mrz) ==
  IF mrz.kind = "none" THEN << >>
  ELSE LET raw_text == Or(mrz.raw_text, mrz.text)
       IN  IF raw_text # None /\ raw_text # << >> THEN Strip(raw_text)
           ELSE Strip(mrz.str)

ItemLines(items) == [i \in 1..Len(items) |-> items[i][1] \o <<":", SP>> \o items[i][2]]

_mrz_to_parsed_string(mrz) ==
  IF mrz.kind = "none" THEN << >>
  ELSE IF mrz.to_dict = "absent" THEN << >>
  ELSE IF mrz.to_dict = "raises" THEN << >>
  ELSE Strip(Join(ItemLines(mrz.items), <<NL>>))

\* --------------------------------------------------------------- assembly
Header(title) == <<"[">> \o title \o <<"]">>
TitleMrz == <<"M", "R", "Z">>
TitleMrzParsed == <<"M", "R", "Z", SP, "P", "A", "R", "S", "E", "D">>

\* _append_section without its guard on an empty section
_append_section_always(text, title, section_text) ==
  IF Strip(text) = << >> THEN Header(title) \o <<NL>> \o section_text
  ELSE text \o <<NL, NL>> \o Header(title) \o <<NL>> \o section_text

_append_section(text, title, section_text) ==
  IF section_text = << >> THEN text
  ELSE IF Strip(text) = << >> THEN Header(title) \o <<NL>> \o section_text
  ELSE text \o <<NL, NL>> \o Header(title) \o <<NL>> \o section_text

\* the two appends every caller makes (lines 64-67, 73-76, 209-212)
AppendBoth(text, mrz_text, mrz_parsed) ==
  _append_section(_append_section(text, TitleMrz, mrz_text),
                  TitleMrzParsed, mrz_parsed)

\* the comparison with the boundary excluded
TextSufficientStrict(base_text, min_length) == Len(Strip(base_text)) > min_length

\* len(base_text.strip()) >= settings.ocr_min_text_length
TextSufficient(base_text, min_length) == Len(Strip(base_text)) >= min_length

\* ------------------------------------------------------------- documents
\* page.rect: a page at the origin, and one whose left edge is not at 0
WideRect == [x0 |-> 0, width |-> 4, height |-> 12]
ShiftedRect == [x0 |-> 2, width |-> 3, height |-> 12]
Widget(name, label, value, y, x) ==
  [name |-> name, label |-> label, value |-> value, y |-> y, x |-> x]
Page(lines, widgets, ocr, mrz) ==
  [lines |-> lines, widgets |-> widgets, ocr |-> ocr, mrz |-> mrz, rect |-> WideRect]

\* an empty page: no text layer, nothing recognised, no MRZ
PageBlank == Page(<< >>, << >>, << >>, MrzNone)
\* a page with a text layer of two lines, listed bottom line first
PageText ==
  Page(<<Line(2, 0, <<"b">>), Line(1, 0, <<"a", SP>>)>>, << >>,
       <<"a", NL, "b">>, MrzNone)
\* a scanned photo page: no text layer, OCR reads two lines, MRZ present
PageScan ==
  Page(<< >>, << >>, <<"c", NL, NL, SP, "d", SP, NL>>,
       Mrz("obj", <<"P", "<", NL>>, None, <<"o">>, "callable",
           <<<<<<"n">>, <<"X">>>>, <<<<"s">>, <<"F">>>>>>))
\* a form page: a right-column text line above a filled left-column widget,
\* and a widget without a value; the MRZ reader raises on it
PageForm ==
  Page(<<Line(1, 3, <<"a">>)>>,
       <<Widget(<<"n">>, << >>, <<"/", "v">>, 2, 0),
         Widget(<<"m">>, <<"l">>, None, 3, 0)>>,
       <<"a">>, MrzRaises)
\* a page whose text and OCR are white space; the MRZ reader returns an
\* object with no raw text whose to_dict() still yields a field
PageSpace ==
  Page(<<Line(1, 0, <<SP>>)>>, << >>, <<SP, NL>>,
       Mrz("obj", None, << >>, <<SP>>, "callable", <<<<<<"n">>, <<"X">>>>>>))
\* a page with one line; MRZ object with raw text but no to_dict
PageNoParse ==
  Page(<<Line(1, 0, <<"e">>)>>, << >>, <<"e", NL>>,
       Mrz("obj", << >>, <<SP, "P", SP>>, <<"o">>, "absent", << >>))

\* a page with one line that cannot be rasterized for the MRZ reader
PageNoRaster ==
  Page(<<Line(1, 0, <<"g">>)>>, << >>, <<"g">>, RasterRaises)

\* what stands for a page's OCR text when pytesseract.image_to_string (or
\* the get_pixmap before it) raises on that page
OcrError == <<"OcrError">>

\* a page with a one-character text layer on which the OCR engine raises
PageOcrFails ==
  Page(<<Line(1, 0, <<"h">>)>>, << >>, OcrError, MrzNone)

PageKinds ==
  {PageBlank, PageText, PageScan, PageForm, PageSpace, PageNoParse, PageNoRaster,
   PageOcrFails}
MrzPageKinds == {PageBlank, PageScan, PageForm, PageSpace, PageNoRaster}

SeqsUpTo(S, n) == UNION {[1..k -> S] : k \in 1..n}

\* ---------------------------------------------------------------- state
VARIABLES
  installed,            \* whether the passporteye package can be imported
  read_mrz,             \* the module global: "unbound", "callable" or "None"
  call,                 \* the entry point called and its arguments
  ocr_min_text_length,  \* settings.ocr_min_text_length
  pc,                   \* where the call stands
  use_ocr,              \* use_ocr of the running _extract_text_with_fields
  index,                \* page cursor of the running loop (1-based)
  parts,                \* parts of the running _extract_text_with_fields
  base_text,            \* base_text of extract_pdf_text
  final_text,           \* the body text, before any MRZ section
  used_ocr,
  mrz_text,
  mrz_parsed,
  outcome,              \* "none", "returned" or "raised"
  result,               \* the (text, used_ocr) returned
  log,                  \* the capability calls made, in order
  opened,               \* document handles opened by fitz.open
  closed,               \* of these, the handles closed
  passport_text,        \* passport_text of _run_job (None before line 118)
  g28_text,             \* g28_text of _run_job (None before line 121)
  job,                  \* the job record of the job store: status and error
  world,                \* what the job's collaborators will do when called
  saved,                \* the outcomes of the save_text_log calls, in order
  fill_args,            \* the texts scan_and_fill_form was called with
  combined,             \* combined of _merge_page_text_with_fields
  ordered,              \* ordered of _merge_page_text_with_fields
  merged_text           \* merged_text of _merge_page_text_with_fields

vars ==
  <<installed, read_mrz, call, ocr_min_text_length, pc, use_ocr, index, parts,
    base_text, final_text, used_ocr, mrz_text, mrz_parsed, outcome, result,
    log, opened, closed, combined, ordered, merged_text, passport_text, g28_text,
    job, world, saved, fill_args>>

\* left alone by every action of the extraction calls
pageVars == <<combined, ordered, merged_text>>
inputVars == <<installed, call, ocr_min_text_length>>
\* the state of _run_job, left alone by the calls taken one at a time
jobVars == <<passport_text, g28_text, job, world, saved, fill_args>>

\* JobStatus (schemas.py) and the job record before _run_job runs
JobState(status, error) == [status |-> status, error |-> error]
NoJob == JobState("queued", None)
World(llm, files, passport, g28, fill) ==
  [llm |-> llm, files |-> files, passport |-> passport, g28 |-> g28, fill |-> fill]
NoWorld == World("ok", FALSE, None, None, "ok")

DefaultMinTextLength == 200

Call(entry, exists, suffix, include_mrz, column_mode, doc) ==
  [entry |-> entry, exists |-> exists, suffix |-> suffix,
   include_mrz |-> include_mrz, column_mode |-> column_mode, doc |-> doc,
   openable |-> TRUE]

\* the same call on a file that exists but that fitz.open and Image.open
\* cannot open (a corrupt PDF, an image in no known format)
Unopenable(c) == [c EXCEPT !.openable = FALSE]

ColumnModes == {"single", "two-column"}
PdfDocs == SeqsUpTo(PageKinds, MaxPages)
OnePageDocs == SeqsUpTo(PageKinds, 1)

\* calls that run the quality-gated page passes
GatedCalls ==
  {Call("extract_pdf_text", TRUE, ".pdf", m, c, d) :
     m \in BOOLEAN, c \in ColumnModes, d \in PdfDocs}
  \cup {Call("extract_pdf_text", TRUE, ".png", m, c, d) :
     m \in BOOLEAN, c \in ColumnModes, d \in OnePageDocs}
  \cup {Call("extract_passport_text", TRUE, ".pdf", FALSE, "single", d) : d \in PdfDocs}

\* calls that never read the threshold
OtherCalls ==
  {Call("extract_passport_text", TRUE, ".png", FALSE, "single", d) : d \in OnePageDocs}
  \cup {Call(e, FALSE, s, FALSE, "single", << >>) :
     e \in {"extract_pdf_text", "extract_passport_text"}, s \in {".pdf", ".png"}}
  \cup {Call("_extract_mrz_from_pdf_images", TRUE, ".pdf", FALSE, "single", d) :
     d \in SeqsUpTo(MrzPageKinds, MaxMrzPages)}

\* calls on a file that cannot be opened; only an image's MRZ outcome is read
\* from its page, since read_mrz decodes the file by itself
UnopenableCalls ==
  {Unopenable(Call("extract_pdf_text", TRUE, s, m, c, <<PageText>>)) :
     s \in {".pdf", ".png"}, m \in BOOLEAN, c \in ColumnModes}
  \cup {Unopenable(Call("extract_passport_text", TRUE, ".pdf", FALSE, "single", <<PageText>>))}
  \cup {Unopenable(Call("extract_passport_text", TRUE, ".png", FALSE, "single", d)) :
     d \in OnePageDocs}
  \cup {Unopenable(Call("_extract_mrz_from_pdf_images", TRUE, ".pdf", FALSE, "single", <<PageScan>>))}

NoResult == [text |-> << >>, used_ocr |-> FALSE]

Init ==
  /\ installed \in BOOLEAN
  /\ \/ call \in GatedCalls /\ ocr_min_text_length \in 0..MaxThreshold \cup {DefaultMinTextLength}
     \/ call \in OtherCalls \cup UnopenableCalls
        /\ ocr_min_text_length = DefaultMinTextLength
  /\ read_mrz = "unbound"
  /\ pc = "import"
  /\ use_ocr = FALSE
  /\ index = 0
  /\ parts = << >>
  /\ base_text = << >>
  /\ final_text = << >>
  /\ used_ocr = FALSE
  /\ mrz_text = << >>
  /\ mrz_parsed = << >>
  /\ outcome = "none"
  /\ result = NoResult
  /\ log = << >>
  /\ opened = 0
  /\ closed = 0
  /\ passport_text = None
  /\ g28_text = None
  /\ job = NoJob
  /\ world = NoWorld
  /\ saved = << >>
  /\ fill_args = None
  /\ combined = << >>
  /\ ordered = << >>
  /\ merged_text = << >>

Ev(op, page) == [op |-> op, page |-> page]

\* the arguments extract_pdf_text runs with: its own, or those line 62 passes
include_mrz == call.entry = "extract_pdf_text" /\ call.include_mrz
column_mode == IF call.entry = "extract_pdf_text" THEN call.column_mode ELSE "single"

Return(text, flag) ==
  /\ result' = [text |-> text, used_ocr |-> flag]
  /\ outcome' = "returned"
  /\ pc' = "done"

\* where the MRZ pipeline's pair goes: to the caller that appends it, or out
MrzReturn(text, parsed) ==
  /\ mrz_text' = text
  /\ mrz_parsed' = parsed
  /\ IF call.entry = "_extract_mrz_from_pdf_images"
       THEN outcome' = "returned" /\ pc' = "done"
       ELSE outcome' = outcome /\ pc' = "append"

\* -------------------------------------------------------------- actions
\* A function that holds doc returns. No code calls doc.close() and no
\* "with" block holds the document, so whether the handle is closed at this
\* point is up to the runtime's collection of the unreferenced Document.
DropDoc == closed' \in {closed, closed + 1}

\* line 13: from passporteye import read_mrz, run when the module is loaded
ImportModule ==
  /\ pc = "import"
  /\ IF installed
       THEN read_mrz' = "callable" /\ pc' = "enter" /\ outcome' = outcome
       ELSE read_mrz' = read_mrz /\ pc' = "import_error" /\ outcome' = "raised"
  /\ UNCHANGED <<inputVars, use_ocr, index, parts, base_text, final_text, used_ocr,
                 mrz_text, mrz_parsed, result, log, opened, closed, pageVars, jobVars>>

\* extract_passport_text, to its dispatch on the suffix
EnterPassport ==
  /\ pc = "enter"
  /\ call.entry = "extract_passport_text"
  /\ IF ~call.exists THEN Return(<< >>, FALSE)
     ELSE /\ pc' = IF call.suffix = ".pdf" THEN "extract_pdf_text" ELSE "image_text"
          /\ UNCHANGED <<outcome, result>>
  /\ UNCHANGED <<inputVars, read_mrz, use_ocr, index, parts, base_text, final_text,
                 used_ocr, mrz_text, mrz_parsed, log, opened, closed, pageVars, jobVars>>

\* extract_pdf_text without the check of lines 24-26
EnterPdfTextUnchecked ==
  /\ \/ pc = "enter" /\ call.entry = "extract_pdf_text"
     \/ pc = "extract_pdf_text"
  /\ use_ocr' = FALSE
  /\ pc' = "open"
  /\ UNCHANGED <<inputVars, read_mrz, index, parts, base_text, final_text, used_ocr,
                 mrz_text, mrz_parsed, outcome, result, log, opened, closed, pageVars, jobVars>>

\* extract_pdf_text, to its first _extract_text_with_fields
EnterPdfText ==
  /\ \/ pc = "enter" /\ call.entry = "extract_pdf_text"
     \/ pc = "extract_pdf_text"
  /\ IF ~call.exists THEN Return(<< >>, FALSE) /\ use_ocr' = use_ocr
     ELSE /\ use_ocr' = FALSE
          /\ pc' = "open"
          /\ UNCHANGED <<outcome, result>>
  /\ UNCHANGED <<inputVars, read_mrz, index, parts, base_text, final_text, used_ocr,
                 mrz_text, mrz_parsed, log, opened, closed, pageVars, jobVars>>

\* a direct call of _extract_mrz_from_pdf_images
EnterMrz ==
  /\ pc = "enter"
  /\ call.entry = "_extract_mrz_from_pdf_images"
  /\ pc' = "mrz_pdf"
  /\ UNCHANGED <<inputVars, read_mrz, use_ocr, index, parts, base_text, final_text,
                 used_ocr, mrz_text, mrz_parsed, outcome, result, log, opened, closed, pageVars, jobVars>>

\* the pass started at the last page instead of the first
OpenDocAtLastPage ==
  /\ pc = "open"
  /\ log' = Append(log, Ev("open", 0))
  /\ IF call.openable
       THEN /\ opened' = opened + 1
            /\ index' = Len(call.doc)
            /\ parts' = << >>
            /\ pc' = "pages"
            /\ UNCHANGED outcome
       ELSE /\ outcome' = "raised"
            /\ pc' = "done"
            /\ UNCHANGED <<opened, index, parts>>
  /\ UNCHANGED <<inputVars, read_mrz, use_ocr, base_text, final_text, used_ocr,
                 mrz_text, mrz_parsed, result, closed, pageVars, jobVars>>

\* _extract_text_with_fields: doc = fitz.open(...), parts = []
OpenDoc ==
  /\ pc = "open"
  /\ log' = Append(log, Ev("open", 0))
  /\ IF call.openable
       THEN /\ opened' = opened + 1
            /\ index' = 1
            /\ parts' = << >>
            /\ pc' = "pages"
            /\ UNCHANGED outcome
       ELSE /\ outcome' = "raised"
            /\ pc' = "done"
            /\ UNCHANGED <<opened, index, parts>>
  /\ UNCHANGED <<inputVars, read_mrz, use_ocr, base_text, final_text, used_ocr,
                 mrz_text, mrz_parsed, result, closed, pageVars, jobVars>>

\* _extract_text_with_fields: one turn of the loop over the pages (the field
\* counts it adds up are only logged, at lines 31-37, and are left out)
\* the loop with an OCR error caught and the page's text left empty
ReadPageSkippingOcrErrors ==
  /\ pc = "pages"
  /\ index <= Len(call.doc)
  /\ IF use_ocr /\ call.doc[index].ocr = OcrError
       THEN /\ parts' = Append(parts, << >>)
            /\ log' = Append(log, Ev("ocr", index))
       ELSE /\ parts' = Append(parts,
                   _merge_page_text_with_fields(call.doc[index], use_ocr, column_mode))
            /\ log' = log \o <<Ev(IF use_ocr THEN "ocr" ELSE "text", index),
                               Ev("widgets", index)>>
  /\ index' = index + 1
  /\ UNCHANGED <<inputVars, read_mrz, pc, use_ocr, base_text, final_text, used_ocr,
                 mrz_text, mrz_parsed, outcome, result, opened, closed, pageVars, jobVars>>

ReadPage ==
  /\ pc = "pages"
  /\ index <= Len(call.doc)
  /\ IF use_ocr /\ call.doc[index].ocr = OcrError
       THEN \* line 139 raises; nothing in the callers catches it
            /\ log' = Append(log, Ev("ocr", index))
            /\ outcome' = "raised"
            /\ pc' = "done"
            /\ UNCHANGED <<parts, index>>
       ELSE /\ parts' = Append(parts,
                   _merge_page_text_with_fields(call.doc[index], use_ocr, column_mode))
            /\ log' = log \o <<Ev(IF use_ocr THEN "ocr" ELSE "text", index),
                               Ev("widgets", index)>>
            /\ index' = index + 1
            /\ UNCHANGED <<pc, outcome>>
  /\ UNCHANGED <<inputVars, read_mrz, use_ocr, base_text, final_text, used_ocr,
                 mrz_text, mrz_parsed, result, opened, closed, pageVars, jobVars>>

\* the OCR pass result appended to the text-layer text instead of replacing it
FinishPassMerging ==
  /\ pc = "pages"
  /\ index > Len(call.doc)
  /\ IF ~use_ocr
       THEN /\ base_text' = Join(parts, <<NL>>)
            /\ pc' = "decide"
            /\ UNCHANGED <<final_text, used_ocr>>
       ELSE /\ final_text' = Join(<<base_text, Join(parts, <<NL>>)>>, <<NL>>)
            /\ used_ocr' = TRUE
            /\ pc' = "after_body"
            /\ UNCHANGED base_text
  /\ DropDoc
  /\ UNCHANGED <<inputVars, read_mrz, use_ocr, index, parts, mrz_text, mrz_parsed,
                 outcome, result, log, opened, pageVars, jobVars>>

\* _extract_text_with_fields returns "\n".join(parts) to line 28 or line 44
FinishPass ==
  /\ pc = "pages"
  /\ index > Len(call.doc)
  /\ IF ~use_ocr
       THEN /\ base_text' = Join(parts, <<NL>>)
            /\ pc' = "decide"
            /\ UNCHANGED <<final_text, used_ocr>>
       ELSE /\ final_text' = Join(parts, <<NL>>)
            /\ used_ocr' = TRUE
            /\ pc' = "after_body"
            /\ UNCHANGED base_text
  /\ DropDoc
  /\ UNCHANGED <<inputVars, read_mrz, use_ocr, index, parts, mrz_text, mrz_parsed,
                 outcome, result, log, opened, pageVars, jobVars>>

\* lines 39-47: accept the text layer, or run the OCR pass
Decide ==
  /\ pc = "decide"
  /\ IF TextSufficient(base_text, ocr_min_text_length)
       THEN /\ final_text' = base_text
            /\ used_ocr' = FALSE
            /\ pc' = "after_body"
            /\ UNCHANGED use_ocr
       ELSE /\ use_ocr' = TRUE
            /\ pc' = "open"
            /\ UNCHANGED <<final_text, used_ocr>>
  /\ UNCHANGED <<inputVars, read_mrz, index, parts, base_text, mrz_text, mrz_parsed,
                 outcome, result, log, opened, closed, pageVars, jobVars>>

\* the MRZ pipeline run whatever the flag says
AfterBodyAlwaysMrz ==
  /\ pc = "after_body"
  /\ IF call.entry = "extract_pdf_text"
       THEN pc' = "mrz_with_passporteye" /\ UNCHANGED <<outcome, result>>
       ELSE pc' = "mrz_pdf" /\ UNCHANGED <<outcome, result>>
  /\ UNCHANGED <<inputVars, read_mrz, use_ocr, index, parts, base_text, final_text,
                 used_ocr, mrz_text, mrz_parsed, log, opened, closed, pageVars, jobVars>>

\* lines 49-52, and line 63 when extract_passport_text made the call
AfterBody ==
  /\ pc = "after_body"
  /\ IF include_mrz THEN pc' = "mrz_with_passporteye" /\ UNCHANGED <<outcome, result>>
     ELSE IF call.entry = "extract_passport_text"
       THEN pc' = "mrz_pdf" /\ UNCHANGED <<outcome, result>>
     ELSE Return(final_text, used_ocr)
  /\ UNCHANGED <<inputVars, read_mrz, use_ocr, index, parts, base_text, final_text,
                 used_ocr, mrz_text, mrz_parsed, log, opened, closed, pageVars, jobVars>>

\* line 70: _extract_image_text; the result is paired with True at line 77
\* (lines 196-200: when Image.open raises, a warning is logged and "" returned)
ExtractImageText ==
  /\ pc = "image_text"
  /\ IF ~call.openable
       THEN /\ log' = Append(log, Ev("image_open", 0))
            /\ final_text' = << >>
            /\ used_ocr' = TRUE
            /\ pc' = "mrz_with_passporteye"
            /\ UNCHANGED outcome
     ELSE IF call.doc[1].ocr = OcrError
       THEN \* line 204 raises, outside the try of lines 196-200
            /\ log' = log \o <<Ev("image_open", 0), Ev("ocr", 0)>>
            /\ outcome' = "raised"
            /\ pc' = "done"
            /\ UNCHANGED <<final_text, used_ocr>>
     ELSE /\ log' = log \o <<Ev("image_open", 0), Ev("ocr", 0)>>
          /\ final_text' = call.doc[1].ocr
          /\ used_ocr' = TRUE
          /\ pc' = "mrz_with_passporteye"
          /\ UNCHANGED outcome
  /\ UNCHANGED <<inputVars, read_mrz, use_ocr, index, parts, base_text, mrz_text,
                 mrz_parsed, result, opened, closed, pageVars, jobVars>>

\* the handler missing: the exception leaves the call
MrzExceptPropagates ==
  /\ outcome' = "raised"
  /\ pc' = "done"
  /\ UNCHANGED <<mrz_text, mrz_parsed>>

\* except Exception: return "", ""  (lines 247-249 and 273-275)
MrzExcept == MrzReturn(<< >>, << >>)

\* _extract_mrz_with_passporteye, called at line 71 and line 208: the guard,
\* the dispatch on the suffix and, for an image, read_mrz on the file
MrzWithPassporteye ==
  /\ pc = "mrz_with_passporteye"
  /\ LET entered == Append(log, Ev("mrz_with_passporteye", 0))
     IN  IF read_mrz = "None" THEN MrzReturn(<< >>, << >>) /\ log' = entered
         ELSE IF call.suffix = ".pdf"
           THEN /\ pc' = "mrz_pdf"
                /\ log' = entered
                /\ UNCHANGED <<mrz_text, mrz_parsed, outcome>>
         ELSE LET mrz == call.doc[1].mrz
              IN  IF mrz.kind = "raster_raise"
                    THEN MrzExcept /\ log' = Append(entered, Ev("mrz_image", 0))
                  ELSE /\ log' = entered \o <<Ev("mrz_image", 0), Ev("mrz", 0)>>
                       /\ IF mrz.kind = "raise" THEN MrzExcept
                          ELSE MrzReturn(_mrz_to_string(mrz), _mrz_to_parsed_string(mrz))
  /\ UNCHANGED <<inputVars, read_mrz, use_ocr, index, parts, base_text, final_text,
                 used_ocr, result, opened, closed, pageVars, jobVars>>

\* _extract_mrz_from_pdf_images: the guard, fitz.open and the start of the
\* loop at the last page
MrzPdfOpen ==
  /\ pc = "mrz_pdf"
  /\ IF read_mrz = "None"
       THEN /\ MrzReturn(<< >>, << >>)
            /\ log' = Append(log, Ev("mrz_from_pdf_images", 0))
            /\ UNCHANGED <<opened, index>>
       ELSE IF ~call.openable
         THEN /\ MrzExcept
              /\ log' = log \o <<Ev("mrz_from_pdf_images", 0), Ev("open", 0)>>
              /\ UNCHANGED <<opened, index>>
       ELSE /\ opened' = opened + 1
            /\ log' = log \o <<Ev("mrz_from_pdf_images", 0), Ev("open", 0)>>
            /\ index' = Len(call.doc)
            /\ pc' = "mrz_scan"
            /\ UNCHANGED <<mrz_text, mrz_parsed, outcome>>
  /\ UNCHANGED <<inputVars, read_mrz, use_ocr, parts, base_text, final_text, used_ocr,
                 result, closed, pageVars, jobVars>>

\* the page the loop at line 260 visits after page i (both 1-based)
NextMrzIndex(i) == i - 1

\* the loop without the return at line 272: it keeps the MRZ and goes on
MrzPdfPageNoStop ==
  /\ pc = "mrz_scan"
  /\ index >= 1 /\ index <= Len(call.doc)
  /\ LET mrz == call.doc[index].mrz
     IN  IF mrz.kind = "raster_raise"
           THEN /\ MrzExcept /\ DropDoc
                /\ log' = Append(log, Ev("mrz_image", index - 1))
                /\ index' = index
           ELSE /\ log' = log \o <<Ev("mrz_image", index - 1), Ev("mrz", index - 1)>>
                /\ IF mrz.kind = "raise" THEN MrzExcept /\ DropDoc /\ index' = index
                   ELSE IF _mrz_to_string(mrz) # << >>
                     THEN /\ mrz_text' = _mrz_to_string(mrz)
                          /\ mrz_parsed' = _mrz_to_parsed_string(mrz)
                          /\ index' = NextMrzIndex(index)
                          /\ UNCHANGED <<pc, outcome, closed>>
                   ELSE /\ index' = NextMrzIndex(index)
                        /\ UNCHANGED <<pc, mrz_text, mrz_parsed, outcome, closed>>
  /\ UNCHANGED <<inputVars, read_mrz, use_ocr, parts, base_text, final_text, used_ocr,
                 result, opened, pageVars, jobVars>>

\* one turn of the loop at lines 260-272, on page index - 1 of the code
MrzPdfPage ==
  /\ pc = "mrz_scan"
  /\ index >= 1 /\ index <= Len(call.doc)
  /\ LET mrz == call.doc[index].mrz
     IN  IF mrz.kind = "raster_raise"
           THEN /\ MrzExcept /\ DropDoc
                /\ log' = Append(log, Ev("mrz_image", index - 1))
                /\ index' = index
           ELSE /\ log' = log \o <<Ev("mrz_image", index - 1), Ev("mrz", index - 1)>>
                /\ IF mrz.kind = "raise" THEN MrzExcept /\ DropDoc /\ index' = index
                   ELSE IF _mrz_to_string(mrz) # << >>
                     THEN /\ MrzReturn(_mrz_to_string(mrz), _mrz_to_parsed_string(mrz))
                          /\ DropDoc
                          /\ index' = index
                   ELSE /\ index' = NextMrzIndex(index)
                        /\ UNCHANGED <<pc, mrz_text, mrz_parsed, outcome, closed>>
  /\ UNCHANGED <<inputVars, read_mrz, use_ocr, parts, base_text, final_text, used_ocr,
                 result, opened, pageVars, jobVars>>

\* line 276: the loop ended without a page yielding an MRZ
MrzPdfExhausted ==
  /\ pc = "mrz_scan"
  /\ ~(index >= 1 /\ index <= Len(call.doc))
  /\ MrzReturn(<< >>, << >>)
  /\ DropDoc
  /\ UNCHANGED <<inputVars, read_mrz, use_ocr, index, parts, base_text, final_text,
                 used_ocr, result, log, opened, pageVars, jobVars>>

\* lines 64-68, 73-77 and 209-215 with line 52: append the sections, return
AppendSections ==
  /\ pc = "append"
  /\ Return(AppendBoth(final_text, mrz_text, mrz_parsed), used_ocr)
  /\ UNCHANGED <<inputVars, read_mrz, use_ocr, index, parts, base_text, final_text,
                 used_ocr, mrz_text, mrz_parsed, log, opened, closed, pageVars, jobVars>>

Next ==
  \/ ImportModule
  \/ EnterPassport
  \/ EnterPdfText
  \/ EnterMrz
  \/ OpenDoc
  \/ ReadPage
  \/ FinishPass
  \/ Decide
  \/ AfterBody
  \/ ExtractImageText
  \/ MrzWithPassporteye
  \/ MrzPdfOpen
  \/ MrzPdfPage
  \/ MrzPdfExhausted
  \/ AppendSections

Spec == Init /\ [][Next]_vars

\* ----------------------------------------------------------------- claims
Done == pc = "done"

\* the call ran, or runs, the body of extract_pdf_text on an existing file
Gated == call \in GatedCalls

\* the call is one of the two entry points, on an existing file
Extraction ==
  call.exists /\ call.entry \in {"extract_pdf_text", "extract_passport_text"}

\* the text of the non-OCR pass and of the OCR pass over the whole document
NonOcrText == _extract_text_with_fields(call.doc, FALSE, column_mode)
OcrPassText == _extract_text_with_fields(call.doc, TRUE, column_mode)

\* the OCR engine raises on some page of the document
OcrFails == \E i \in 1..Len(call.doc) : call.doc[i].ocr = OcrError

OcrCalls == SelectSeq(log, LAMBDA e : e.op = "ocr")

\* C1, as stated: whenever the non-OCR text, untrimmed, has length >= the
\* threshold, extract_pdf_text makes no OCR call and returns used_ocr = false.
C1_UntrimmedLengthSkipsOcr ==
  (Gated /\ Len(NonOcrText) >= ocr_min_text_length)
    => /\ OcrCalls = << >>
       /\ (Done => outcome = "returned" /\ ~result.used_ocr)

\* C1, amended: whenever the non-OCR text, trimmed of leading and trailing
\* white space, has length >= the threshold (equal included, and any text
\* when the threshold is 0), no OCR call is made and used_ocr is false.
C1_TrimmedLengthSkipsOcr ==
  (Gated /\ Len(Strip(NonOcrText)) >= ocr_min_text_length)
    => /\ OcrCalls = << >>
       /\ (Done => outcome = "returned" /\ ~result.used_ocr)

\* C1 witness: a call returned with the trimmed length exactly at a positive
\* threshold, and the untrimmed text longer than that
C1_Witness ==
  /\ Done /\ Gated
  /\ ocr_min_text_length > 0
  /\ Len(Strip(NonOcrText)) = ocr_min_text_length
  /\ Len(NonOcrText) > ocr_min_text_length
  /\ ~result.used_ocr

\* C2: whenever the non-OCR text is shorter than the threshold (and the OCR
\* engine works on every page), the call returns used_ocr = true and its body
\* text is the OCR pass over the whole document and nothing else, whatever
\* that text is.
C2_ShortTextTakesOcrPass ==
  (Done /\ Gated /\ ~OcrFails /\ Len(NonOcrText) < ocr_min_text_length)
    => /\ outcome = "returned"
       /\ result.used_ocr
       /\ final_text = OcrPassText
       /\ (mrz_text = << >> /\ mrz_parsed = << >> => result.text = OcrPassText)
       /\ Len(OcrCalls) = Len(call.doc)

\* C2 witness: a non-empty text-layer text was discarded for an OCR text that
\* differs from it
C2_Witness ==
  /\ Done /\ Gated
  /\ NonOcrText # << >>
  /\ Len(NonOcrText) < ocr_min_text_length
  /\ result.used_ocr
  /\ result.text = OcrPassText
  /\ OcrPassText # NonOcrText

\* the pages (numbered as the code numbers them, from 0) on which read_mrz
\* was called, in call order
MrzEvents == SelectSeq(log, LAMBDA e : e.op = "mrz")
MrzTried == [i \in 1..Len(MrzEvents) |-> MrzEvents[i].page]
PageNo(k) == call.doc[k + 1]
\* the MRZ pipeline has handed back its pair
MrzScanOver == pc = "append" \/ (pc = "done" /\ outcome = "returned")

\* C3: the PDF scan calls read_mrz on pages n-1, n-2, ... in that order; no
\* call follows a page that yielded a non-empty MRZ; the scan ends only at
\* such a page, at an exception or after page 0; and when it ends at a page
\* with a non-empty MRZ it returns that page's raw and parsed text.
C3_BackwardScanStopsAtFirstMrz ==
  call.suffix = ".pdf" =>
    LET n == Len(call.doc)
        k == Len(MrzTried)
    IN  /\ \A i \in 1..k : MrzTried[i] = n - i
        /\ \A i \in 1..(k - 1) :
             PageNo(MrzTried[i]).mrz.kind \in {"none", "obj"}
             /\ _mrz_to_string(PageNo(MrzTried[i]).mrz) = << >>
        /\ (MrzScanOver /\ k > 0 /\ PageNo(MrzTried[k]).mrz.kind = "obj"
              /\ _mrz_to_string(PageNo(MrzTried[k]).mrz) # << >>)
             => /\ mrz_text = _mrz_to_string(PageNo(MrzTried[k]).mrz)
                /\ mrz_parsed = _mrz_to_parsed_string(PageNo(MrzTried[k]).mrz)
        \* (a call of extract_pdf_text without include_mrz runs no scan)
        /\ (MrzScanOver /\ mrz_text = << >> /\ (call.entry = "extract_pdf_text" => include_mrz))
             => \/ k = n
                \/ k > 0 /\ PageNo(MrzTried[k]).mrz.kind = "raise"
                \/ k < n /\ PageNo(n - k - 1).mrz.kind = "raster_raise"
                \/ ~call.openable

\* C3 witness: three pages, an MRZ on page 1 only; pages 2 and 1 were tried
C3_Witness ==
  /\ Done
  /\ call.entry = "_extract_mrz_from_pdf_images"
  /\ Len(call.doc) = 3
  /\ _mrz_to_string(call.doc[1].mrz) = << >>
  /\ _mrz_to_string(call.doc[3].mrz) = << >>
  /\ call.doc[3].mrz.kind = "none"
  /\ MrzTried = <<2, 1>>
  /\ mrz_text = _mrz_to_string(call.doc[2].mrz)
  /\ mrz_text # << >>

Terminated == pc \in {"done", "import_error"}

\* C4: with the passporteye reader not installed, the extraction still ends
\* by returning the body text, with no MRZ section appended.
C4_NoReaderStillExtracts ==
  (~installed /\ Terminated /\ Extraction)
    => outcome = "returned" /\ result.text = final_text

\* the MRZ pipeline met an exception: read_mrz raised on a page it was called
\* on, or preparing a page image raised
MrzPageOf(e) == IF call.suffix = ".pdf" THEN PageNo(e.page) ELSE call.doc[1]
MrzRaised ==
  \E i \in 1..Len(log) :
    \/ log[i].op = "mrz" /\ MrzPageOf(log[i]).mrz.kind = "raise"
    \/ log[i].op = "mrz_image" /\ MrzPageOf(log[i]).mrz.kind = "raster_raise"

\* the used_ocr the call has when MRZ detection plays no part
UsedOcrOfBody ==
  IF Gated THEN ~(Len(Strip(NonOcrText)) >= ocr_min_text_length) ELSE TRUE

\* C5: once the MRZ reader or the page rasterization has raised, the pipeline
\* hands back ("", ""), and the call returns the body text with no MRZ
\* section and the used_ocr of the body extraction.
C5_MrzExceptionAbsorbed ==
  MrzRaised =>
    /\ outcome # "raised"
    /\ MrzScanOver
    /\ mrz_text = << >> /\ mrz_parsed = << >>
    /\ (Done /\ Extraction)
         => /\ outcome = "returned"
            /\ result.text = final_text
            /\ result.used_ocr = UsedOcrOfBody

\* C5 witness: a two-page passport PDF whose last page makes read_mrz raise,
\* returned with its non-empty body text
C5_Witness ==
  /\ Done /\ MrzRaised
  /\ call.entry = "extract_passport_text"
  /\ Len(call.doc) = 2
  /\ call.doc[2].mrz.kind = "raise"
  /\ _mrz_to_string(call.doc[1].mrz) # << >>
  /\ result.text = final_text
  /\ final_text # << >>

\* C6: for a path that does not exist no document is opened and no reader is
\* called, and the call returns ("", false).
C6_MissingPathReturnsEmpty ==
  (~call.exists /\ pc \notin {"import", "import_error"})
    => /\ log = << >>
       /\ opened = 0
       /\ outcome # "raised"
       /\ (Done => outcome = "returned" /\ result = [text |-> << >>, used_ocr |-> FALSE])

\* C6 witness: a call on a missing path has returned
C6_Witness ==
  /\ ~call.exists /\ Done /\ outcome = "returned"
  /\ call.entry = "extract_pdf_text"

\* the number of places where h occurs in t
Occurrences(h, t) ==
  Cardinality({i \in 1..(Len(t) - Len(h) + 1) : SubSeq(t, i, i + Len(h) - 1) = h})

Section(title, body) == Header(title) \o <<NL>> \o body
MrzSections ==
  (IF mrz_text = << >> THEN << >> ELSE <<Section(TitleMrz, mrz_text)>>)
  \o (IF mrz_parsed = << >> THEN << >> ELSE <<Section(TitleMrzParsed, mrz_parsed)>>)

\* C7, as stated: the returned text is the body text, then the [MRZ] section
\* if the raw text is non-empty, then the [MRZ PARSED] section if the parsed
\* text is non-empty, consecutive parts separated by one blank line.
C7_BodyThenSections ==
  (Done /\ Extraction /\ outcome = "returned")
    => result.text =
         Join((IF final_text = << >> THEN << >> ELSE <<final_text>>) \o MrzSections,
              <<NL, NL>>)

\* C7, amended: as stated, except that a body text of white space only is
\* left out when a section follows it; each header occurs once when its
\* section text is non-empty and not at all otherwise.
C7_BodyThenSectionsUnlessBlank ==
  (Done /\ Extraction /\ outcome = "returned")
    => /\ result.text =
            IF MrzSections = << >> THEN final_text
            ELSE Join((IF Strip(final_text) = << >> THEN << >> ELSE <<final_text>>)
                        \o MrzSections,
                      <<NL, NL>>)
       /\ Occurrences(Header(TitleMrz), result.text)
            = (IF mrz_text = << >> THEN 0 ELSE 1)
       /\ Occurrences(Header(TitleMrzParsed), result.text)
            = (IF mrz_parsed = << >> THEN 0 ELSE 1)

\* C7 witness: a returned text with a body and both sections
C7_Witness ==
  /\ Done /\ Extraction /\ outcome = "returned"
  /\ Strip(final_text) # << >>
  /\ mrz_text # << >>
  /\ mrz_parsed # << >>
  /\ Len(result.text) > Len(final_text) + Len(mrz_text) + Len(mrz_parsed)

\* ------------------------------------------- one page, step by step
\* A second specification: one call of _merge_page_text_with_fields on a
\* page drawn from the lines, widgets and OCR blobs below.
Rects == {WideRect, ShiftedRect}

\* text-layer lines: the four corners, one at the midpoint of WideRect, one
\* of white space, one with the text of a widget line at the widget's place,
\* and one repeating a text at another place
LineKinds ==
  {Line(1, 0, <<"a">>), Line(1, 3, <<"b">>), Line(2, 0, <<"c", SP>>),
   Line(2, 3, <<"d">>), Line(1, 2, <<"e">>), Line(1, 0, <<SP>>),
   Line(2, 0, <<"n", ":", SP, "v">>), Line(2, 0, <<"a">>)}

WidgetKinds ==
  {Widget(<<"n">>, << >>, <<"v">>, 2, 0),
   Widget(<<"n">>, <<"l">>, <<"/", "w">>, 1, 3),
   Widget(<<"m">>, << >>, None, 1, 3),
   Widget(<< >>, << >>, <<SP, "/">>, 1, 0)}

OcrBlobs == {<< >>, <<SP, NL>>, <<"a", NL, "a", NL, NL, "b">>, <<"n", ":", SP, "v">>}

SeqsFromZero(S, n) == {<< >>} \cup SeqsUpTo(S, n)

ArrangeModes == {"single", "two-column", "double"}

PageOn(lines, widgets, ocr, rect) ==
  [lines |-> lines, widgets |-> widgets, ocr |-> ocr, mrz |-> MrzNone, rect |-> rect]

MergeCall(page, mode) ==
  Call("_merge_page_text_with_fields", TRUE, ".pdf", FALSE, mode, <<page>>)

InitArrange ==
  /\ installed = TRUE
  /\ read_mrz = "callable"
  /\ \E mode \in ArrangeModes, rect \in Rects, widgets \in SeqsFromZero(WidgetKinds, MaxWidgets) :
       \/ /\ use_ocr = FALSE
          /\ \E lines \in SeqsFromZero(LineKinds, MaxLines) :
               call = MergeCall(PageOn(lines, widgets, << >>, rect), mode)
       \/ /\ use_ocr = TRUE
          /\ \E ocr \in OcrBlobs :
               call = MergeCall(PageOn(<< >>, widgets, ocr, rect), mode)
  /\ ocr_min_text_length = DefaultMinTextLength
  /\ pc = "text_lines"
  /\ index = 0
  /\ parts = << >>
  /\ base_text = << >>
  /\ final_text = << >>
  /\ used_ocr = FALSE
  /\ mrz_text = << >>
  /\ mrz_parsed = << >>
  /\ outcome = "none"
  /\ result = NoResult
  /\ log = << >>
  /\ opened = 0
  /\ closed = 0
  /\ passport_text = None
  /\ g28_text = None
  /\ job = NoJob
  /\ world = NoWorld
  /\ saved = << >>
  /\ fill_args = None
  /\ combined = << >>
  /\ ordered = << >>
  /\ merged_text = << >>

callVars ==
  <<inputVars, read_mrz, use_ocr, index, parts, base_text, final_text, used_ocr,
    mrz_text, mrz_parsed, result, opened, closed, jobVars>>

\* lines 107-111: text_lines, from the text layer or from OCR
ReadTextLines ==
  /\ pc = "text_lines"
  /\ combined' = PageLines(call.doc[1], use_ocr)
  /\ log' = Append(log, Ev(IF use_ocr THEN "ocr" ELSE "text", 1))
  /\ pc' = "field_lines"
  /\ UNCHANGED <<callVars, outcome, ordered, merged_text>>

\* lines 112-113: combined = text_lines + field_lines
ReadFieldLines ==
  /\ pc = "field_lines"
  /\ combined' = combined \o _extract_page_field_lines(call.doc[1]).lines
  /\ log' = Append(log, Ev("widgets", 1))
  /\ pc' = "arrange"
  /\ UNCHANGED <<callVars, outcome, ordered, merged_text>>

\* line 114
ArrangeLines ==
  /\ pc = "arrange"
  /\ ordered' = _arrange_lines(combined, call.doc[1], call.column_mode)
  /\ pc' = "join"
  /\ UNCHANGED <<callVars, outcome, log, combined, merged_text>>

\* lines 115-116
JoinLines ==
  /\ pc = "join"
  /\ merged_text' = Join(NonEmptyTexts(ordered), <<NL>>)
  /\ outcome' = "returned"
  /\ pc' = "merged"
  /\ UNCHANGED <<callVars, log, combined, ordered>>

NextArrange ==
  \/ ReadTextLines
  \/ ReadFieldLines
  \/ ArrangeLines
  \/ JoinLines

SpecArrange == InitArrange /\ [][NextArrange]_vars

\* --------------------------------------------------- claims on one page
Arranged == pc \in {"join", "merged"}
ThePage == call.doc[1]

\* C8: in every mode but "two-column" the arranged lines are all the combined
\* lines, in non-decreasing vertical position, and lines at the same vertical
\* position in non-decreasing horizontal position.
C8_SingleColumnOrder ==
  (Arranged /\ call.column_mode # "two-column")
    => /\ Len(ordered) = Len(combined)
       /\ \A i, j \in 1..Len(ordered) :
            i < j => /\ ordered[i].y <= ordered[j].y
                     /\ (ordered[i].y = ordered[j].y => ordered[i].x <= ordered[j].x)

\* C8 witness: three lines were given in the reverse of their order, the
\* first two at the same vertical position, in a mode that is neither
\* "single" nor "two-column"
C8_Witness ==
  /\ Arranged
  /\ call.column_mode = "double"
  /\ Len(combined) = 3
  /\ combined[1].y = combined[2].y /\ combined[1].x > combined[2].x
  /\ combined[3].y < combined[1].y
  /\ ordered = <<combined[3], combined[2], combined[1]>>

\* horizontal position at or left of x0 + width / 2
LeftOfMid(item) == 2 * item.x <= 2 * ThePage.rect.x0 + ThePage.rect.width

\* C9: in two-column mode the arranged lines are all the combined lines, no
\* line right of the midpoint comes before a line at or left of it, and two
\* lines on the same side are in (vertical, horizontal) order; so of two
\* lines at one height, at 0 and at page_width - 1, the left one comes first.
C9_TwoColumnOrder ==
  (Arranged /\ call.column_mode = "two-column")
    => /\ Len(ordered) = Len(combined)
       /\ \A i, j \in 1..Len(ordered) :
            i < j =>
              /\ ~(~LeftOfMid(ordered[i]) /\ LeftOfMid(ordered[j]))
              /\ (LeftOfMid(ordered[i]) = LeftOfMid(ordered[j]))
                   => \/ ordered[i].y < ordered[j].y
                      \/ ordered[i].y = ordered[j].y /\ ordered[i].x <= ordered[j].x
       /\ \A i, j \in 1..Len(ordered) :
            (/\ ordered[i].y = ordered[j].y
             /\ ordered[i].x = 0
             /\ ordered[j].x = ThePage.rect.width - 1
             /\ ordered[j].x > 0)
              => i < j

\* C9 witness: a right-column line higher on the page than a left-column
\* line comes after it, and two lines at one height, given right one first,
\* at 0 and page_width - 1, come out left one first
C9_Witness ==
  /\ Arranged
  /\ call.column_mode = "two-column"
  /\ Len(ordered) = 3
  /\ combined[1].x = ThePage.rect.width - 1 /\ combined[2].x = 0
  /\ combined[1].y = combined[2].y
  /\ ordered[1] = combined[2]
  /\ ordered[2].y > ordered[3].y
  /\ LeftOfMid(ordered[2]) /\ ~LeftOfMid(ordered[3])

\* how often each element occurs in a sequence
Range(seq) == {seq[i] : i \in DOMAIN seq}
BagOfSeq(seq) == [e \in Range(seq) |-> Cardinality({i \in DOMAIN seq : seq[i] = e})]

HasText(t) == \E i \in 1..Len(t) : ~IsSpace(t[i])
\* a widget holding a value, by lines 163-166 and 305-316
Filled(widget) ==
  /\ widget.value # None
  /\ HasText(widget.value)
  /\ Strip(widget.value) # <<"/">>

\* C10: the page text holds one line for each text-layer line that is not
\* white space (or each OCR line) and one for each filled widget, none
\* dropped and none merged with an equal one, in the order of the arranged
\* positions.
C10_EveryLineOnce ==
  pc = "merged" =>
    LET out == splitlines(merged_text)
        sources ==
          (IF use_ocr THEN _extract_page_ocr_lines(ThePage)
           ELSE SelectSeq(ThePage.lines, LAMBDA l : HasText(l.text)))
          \o SelectSeq(ThePage.widgets, Filled)
    IN  /\ Len(out) = Len(sources)
        /\ BagOfSeq(ordered) = BagOfSeq(combined)
        /\ out = TextsOf(ordered)
        /\ \A i \in 1..Len(sources) :
             IF i <= Len(sources) - Len(SelectSeq(ThePage.widgets, Filled))
               THEN \E k \in 1..Len(ordered) :
                      /\ ordered[k].text = Strip(sources[i].text)
                      /\ ordered[k].y = sources[i].y /\ ordered[k].x = sources[i].x
               ELSE \E k \in 1..Len(ordered) :
                      /\ ordered[k].y = sources[i].y /\ ordered[k].x = sources[i].x
                      /\ Len(ordered[k].text) > Len(sources[i].name)

\* C10 witness: one text-layer line below one filled widget, given in the
\* other order; both are in the page text, widget line first
C10_Witness ==
  /\ pc = "merged"
  /\ ~use_ocr
  /\ Len(ThePage.lines) = 1 /\ Len(ThePage.widgets) = 1
  /\ ThePage.lines[1].y > ThePage.widgets[1].y
  /\ Len(ordered) = 2
  /\ splitlines(merged_text) = <<ordered[1].text, Strip(ThePage.lines[1].text)>>
  /\ ordered[1].text # ordered[2].text

\* ------------------------------------------------ claims on failures
\* C11: when the file exists but cannot be opened (a corrupt PDF, an
\* unopenable image), a call of either entry point ends by raising; it never
\* returns a (text, used_ocr) pair.
C11_UnopenableFileRaises ==
  (Extraction /\ ~call.openable /\ Done) => outcome = "raised"

\* the page an OCR event is about (the image of an image passport is page 0)
OcrPageOf(e) == IF e.page = 0 THEN call.doc[1] ELSE call.doc[e.page]
\* the OCR engine was called on a page and raised
OcrRaised ==
  \E i \in 1..Len(log) : log[i].op = "ocr" /\ OcrPageOf(log[i]).ocr = OcrError
\* the call needs OCR for its body text
OcrRequired ==
  \/ Gated /\ ~TextSufficient(NonOcrText, ocr_min_text_length)
  \/ call.entry = "extract_passport_text" /\ call.exists /\ call.suffix = ".png"
     /\ call.openable

\* C12: once the OCR engine has raised, in the fallback pass over a PDF or on
\* an image passport, the call has ended by raising and has returned nothing:
\* no partial text, no text-layer text, no MRZ section; and a call that
\* needs OCR on a document with a page the engine fails on ends by raising.
C12_OcrErrorPropagates ==
  /\ OcrRaised => (pc = "done" /\ outcome = "raised" /\ result = NoResult)
  /\ (Done /\ OcrRequired /\ OcrFails) => outcome = "raised"

\* C12 witness: a two-page passport PDF with a text layer too short for the
\* threshold; the OCR pass read page 1 and the engine raised on page 2
C12_Witness ==
  /\ Done /\ OcrRaised
  /\ call.entry = "extract_passport_text" /\ call.suffix = ".pdf"
  /\ Len(call.doc) = 2
  /\ base_text # << >>
  /\ Len(parts) = 1 /\ parts[1] # << >>
  /\ _mrz_to_string(call.doc[1].mrz) # << >>
  /\ outcome = "raised"

\* C13: for every call of extract_pdf_text or extract_passport_text that
\* returns, on any input, the returned used_ocr is true if and only if the
\* OCR engine was called at least once during the call.
C13_UsedOcrIffOcrCalled ==
  (Done /\ outcome = "returned"
     /\ call.entry \in {"extract_pdf_text", "extract_passport_text"})
    => (result.used_ocr <=> OcrCalls # << >>)

\* the steps of MRZ detection: the two pipeline functions entered, a page or
\* file prepared for the reader, the reader called
MrzOps == {"mrz_with_passporteye", "mrz_from_pdf_images", "mrz_image", "mrz"}
BodyOps == {"text", "ocr", "widgets", "image_open"}
MrzDetection == SelectSeq(log, LAMBDA e : e.op \in MrzOps)
\* the calls that ask for MRZ detection
MrzWanted ==
  /\ call.exists
  /\ \/ call.entry = "extract_passport_text"
     \/ call.entry = "extract_pdf_text" /\ call.include_mrz

\* C14: in a call of either entry point MRZ detection is attempted only if
\* the call is extract_passport_text on an existing file or extract_pdf_text
\* with include_mrz set; in such a call it is attempted once the body text
\* is obtained, and only then; with the flag unset extract_pdf_text attempts
\* no detection and returns the body text with no MRZ section.
C14_MrzOnlyWhenAskedFor ==
  call.entry \in {"extract_pdf_text", "extract_passport_text"} =>
    /\ MrzDetection # << >> => MrzWanted
    /\ (MrzWanted /\ MrzScanOver) => MrzDetection # << >>
    /\ \A i, j \in 1..Len(log) :
         (log[i].op \in MrzOps /\ log[j].op \in BodyOps) => j < i
    /\ (call.entry = "extract_pdf_text" /\ ~call.include_mrz)
         => /\ MrzDetection = << >>
            /\ (Done /\ outcome = "returned")
                 => /\ result.text = final_text
                    /\ Occurrences(Header(TitleMrz), result.text) = 0
                    /\ Occurrences(Header(TitleMrzParsed), result.text) = 0

\* C14 witness: the call the job runner makes for the G-28 (flag unset,
\* two-column mode) on a document whose last page carries an MRZ, returned
\* with its body text alone
C14_Witness ==
  /\ Done /\ outcome = "returned"
  /\ call.entry = "extract_pdf_text" /\ ~call.include_mrz
  /\ call.column_mode = "two-column"
  /\ _mrz_to_string(call.doc[Len(call.doc)].mrz) # << >>
  /\ result.text = final_text /\ final_text # << >>
  /\ MrzDetection = << >>

\* ------------------------------------------------- claims on the passes
\* the pages read by the non-OCR pass and by the OCR pass, in read order
TextReads ==
  LET es == SelectSeq(log, LAMBDA e : e.op = "text")
  IN  [i \in 1..Len(es) |-> es[i].page]
OcrReads ==
  LET es == SelectSeq(log, LAMBDA e : e.op = "ocr")
  IN  [i \in 1..Len(es) |-> es[i].page]
\* the texts of the pages of the document, in page order
PageTexts(ocr_pass) ==
  [i \in 1..Len(call.doc) |->
     _merge_page_text_with_fields(call.doc[i], ocr_pass, column_mode)]

\* C15: in a call that runs extract_pdf_text the non-OCR pass reads pages
\* 1, 2, ..., n in that order; an OCR read happens only after the non-OCR
\* pass has read all n pages and found the whole text too short; the OCR
\* pass then reads pages 1, 2, ..., n in that order, all of them unless the
\* engine raises; each pass's text is its page texts joined by a newline in
\* page order.
C15_PassesAreSerial ==
  Gated =>
    LET n == Len(call.doc)
    IN  /\ Len(TextReads) <= n /\ Len(OcrReads) <= n
        /\ \A i \in 1..Len(TextReads) : TextReads[i] = i
        /\ \A i \in 1..Len(OcrReads) : OcrReads[i] = i
        /\ OcrReads # << >>
             => /\ Len(TextReads) = n
                /\ \A i, j \in 1..Len(log) :
                     (log[i].op = "text" /\ log[j].op = "ocr") => i < j
                /\ ~TextSufficient(base_text, ocr_min_text_length)
        /\ (Done /\ outcome = "returned") => Len(OcrReads) \in {0, n}
        /\ (Len(TextReads) = n /\ (pc # "pages" \/ use_ocr))
             => base_text = Join(PageTexts(FALSE), <<NL>>)
        /\ (Done /\ outcome = "returned")
             => final_text = Join(PageTexts(result.used_ocr), <<NL>>)

\* C15 witness: a two-page document read as text pages 1, 2, then OCR pages
\* 1, 2, whose two OCR page texts differ and are joined in page order
C15_Witness ==
  /\ Done /\ Gated /\ outcome = "returned"
  /\ Len(call.doc) = 2
  /\ TextReads = <<1, 2>> /\ OcrReads = <<1, 2>>
  /\ PageTexts(TRUE)[1] # PageTexts(TRUE)[2]
  /\ PageTexts(TRUE)[1] # << >> /\ PageTexts(TRUE)[2] # << >>
  /\ final_text = PageTexts(TRUE)[1] \o <<NL>> \o PageTexts(TRUE)[2]

\* C16: after extract_pdf_text or extract_passport_text has returned or
\* raised, every document handle the call opened has been closed.
C16_HandlesClosedByCall ==
  (Done /\ call.entry \in {"extract_pdf_text", "extract_passport_text"})
    => closed = opened

\* the places where h occurs in t
Positions(h, t) ==
  {i \in 1..(Len(t) - Len(h) + 1) : SubSeq(t, i, i + Len(h) - 1) = h}

\* C18: in every text returned by extract_passport_text or extract_pdf_text
\* a [MRZ PARSED] header is preceded by a [MRZ] header, and no parsed text
\* is appended when the raw MRZ text is empty.
C18_ParsedSectionNeedsRawSection ==
  (Done /\ outcome = "returned"
     /\ call.entry \in {"extract_pdf_text", "extract_passport_text"})
    => /\ \A j \in Positions(Header(TitleMrzParsed), result.text) :
            \E i \in Positions(Header(TitleMrz), result.text) : i < j
       /\ mrz_text = << >> => mrz_parsed = << >>

\* ------------------------------------------------------ the job runner
\* A third specification: one run of _run_job (main.py) from its try block
\* on. The two extraction calls, the LLM and the form filler are
\* collaborators whose behaviour world fixes; what the file system does to
\* each save_text_log call is chosen when the call is made.
Raises == <<"raises">>
PassportTexts == {<< >>, <<"p">>}
G28Texts == {<< >>, <<"g">>}

JobWorlds ==
  {World(l, f, p, g, a) :
     l \in {"ok", "raises"}, f \in BOOLEAN, p \in PassportTexts \cup {Raises},
     g \in G28Texts \cup {Raises}, a \in {"ok", "raises"}}

\* str(exc) of the exceptions the try block of _run_job can meet
ErrLlm == <<"build_llm">>
ErrFiles == <<"Passport and G-28 files are required">>
ErrExtract == <<"extraction">>
ErrLogDir == <<"mkdir">>
ErrFill == <<"scan_and_fill_form">>

InitJob ==
  /\ installed = TRUE
  /\ read_mrz = "callable"
  /\ call = Call("_run_job", TRUE, ".pdf", FALSE, "two-column", << >>)
  /\ ocr_min_text_length = DefaultMinTextLength
  /\ pc = "job_start"
  /\ use_ocr = FALSE
  /\ index = 0
  /\ parts = << >>
  /\ base_text = << >>
  /\ final_text = << >>
  /\ used_ocr = FALSE
  /\ mrz_text = << >>
  /\ mrz_parsed = << >>
  /\ outcome = "none"
  /\ result = NoResult
  /\ log = << >>
  /\ opened = 0
  /\ closed = 0
  /\ combined = << >>
  /\ ordered = << >>
  /\ merged_text = << >>
  /\ passport_text = None
  /\ g28_text = None
  /\ job = NoJob
  /\ world \in JobWorlds
  /\ saved = << >>
  /\ fill_args = None

\* the state of the extraction calls, left alone by the job's steps
extractVars ==
  <<inputVars, read_mrz, use_ocr, index, parts, base_text, final_text, used_ocr,
    mrz_text, mrz_parsed, outcome, result, log, opened, closed, pageVars>>

\* json_log.py, save_text_log: mkdir (line 27) is outside the try, write_text
\* (line 32) inside it; the outcome is what the caller sees and what the log
\* directory holds
save_text_log(text, prefix, mkdir_ok, write_ok) ==
  IF ~mkdir_ok THEN [prefix |-> prefix, outcome |-> "raised", text |-> None]
  ELSE IF ~write_ok THEN [prefix |-> prefix, outcome |-> "logged_error", text |-> None]
  ELSE [prefix |-> prefix, outcome |-> "saved", text |-> text]

\* main.py lines 156-158: except Exception: set_error(job_id, str(exc))
SetError(error) ==
  /\ job' = JobState("error", error)
  /\ pc' = "job_over"

\* lines 101-110: build_llm, set_status(extracting_docs), the two paths
JobStart ==
  /\ pc = "job_start"
  /\ IF world.llm = "raises" THEN SetError(ErrLlm)
     ELSE IF ~world.files THEN SetError(ErrFiles)
     ELSE job' = JobState("extracting_docs", None) /\ pc' = "extract_passport"
  /\ UNCHANGED <<extractVars, passport_text, g28_text, world, saved, fill_args>>

\* lines 118-120
ExtractPassport ==
  /\ pc = "extract_passport"
  /\ IF world.passport = Raises
       THEN SetError(ErrExtract) /\ UNCHANGED passport_text
       ELSE passport_text' = world.passport /\ pc' = "extract_g28" /\ UNCHANGED job
  /\ UNCHANGED <<extractVars, g28_text, world, saved, fill_args>>

\* lines 121-123
ExtractG28 ==
  /\ pc = "extract_g28"
  /\ IF world.g28 = Raises
       THEN SetError(ErrExtract) /\ UNCHANGED g28_text
       ELSE g28_text' = world.g28 /\ pc' = "save_passport" /\ UNCHANGED job
  /\ UNCHANGED <<extractVars, passport_text, world, saved, fill_args>>

\* line 124: save_text_log(passport_text, "passport_text")
SavePassportLog ==
  /\ pc = "save_passport"
  /\ \E mkdir_ok \in BOOLEAN, write_ok \in BOOLEAN :
       LET done == save_text_log(passport_text, "passport_text", mkdir_ok, write_ok)
       IN  /\ saved' = Append(saved, done)
           /\ IF done.outcome = "raised" THEN SetError(ErrLogDir)
              ELSE pc' = "save_g28" /\ UNCHANGED job
  /\ UNCHANGED <<extractVars, passport_text, g28_text, world, fill_args>>

\* line 125: save_text_log(g28_text, "g28_text")
SaveG28Log ==
  /\ pc = "save_g28"
  /\ \E mkdir_ok \in BOOLEAN, write_ok \in BOOLEAN :
       LET done == save_text_log(g28_text, "g28_text", mkdir_ok, write_ok)
       IN  /\ saved' = Append(saved, done)
           /\ IF done.outcome = "raised" THEN SetError(ErrLogDir)
              ELSE pc' = "filling_form" /\ UNCHANGED job
  /\ UNCHANGED <<extractVars, passport_text, g28_text, world, fill_args>>

\* line 133: set_status(filling_form)
StartFilling ==
  /\ pc = "filling_form"
  /\ job' = JobState("filling_form", None)
  /\ pc' = "scan_and_fill_form"
  /\ UNCHANGED <<extractVars, passport_text, g28_text, world, saved, fill_args>>

\* lines 135-155: scan_and_fill_form with the two texts, then set_result
FillForm ==
  /\ pc = "scan_and_fill_form"
  /\ fill_args' = <<passport_text, g28_text>>
  /\ IF world.fill = "raises" THEN SetError(ErrFill)
     ELSE job' = JobState("done", None) /\ pc' = "job_over"
  /\ UNCHANGED <<extractVars, passport_text, g28_text, world, saved>>

NextJob ==
  \/ JobStart
  \/ ExtractPassport
  \/ ExtractG28
  \/ SavePassportLog
  \/ SaveG28Log
  \/ StartFilling
  \/ FillForm

SpecJob == InitJob /\ [][NextJob]_vars

\* ------------------------------------------------- claims on the job
\* a save_text_log call failed, at mkdir or at write_text
LogFailed == \E i \in 1..Len(saved) : saved[i].outcome # "saved"

\* C17: a failure of save_text_log, at creating the log directory or at
\* writing the file, never moves the job to the error state, and the job
\* goes on to call scan_and_fill_form with the two extracted texts.
C17_LogFailureLeavesJobAlone ==
  LogFailed =>
    /\ job.error # ErrLogDir
    /\ pc = "job_over"
         => /\ fill_args = <<passport_text, g28_text>>
            /\ passport_text = world.passport
            /\ g28_text = world.g28

====
